---- MODULE Spec2Model ----
(***************************************************************************)
(* Model of the completion-evaluation scripts                              *)
(*   plugins/evaluation-plugin/scripts/utils.py  (calc_latencies)          *)
(*   plugins/evaluation-plugin/scripts/script.py (the metrics, main)       *)
(*                                                                         *)
(* Python values are modelled as follows.                                  *)
(*   - None or a value: a sequence of length <= 1 (<<>> is None, <<v>> is  *)
(*     the value v).                                                       *)
(*   - a dict: a function whose DOMAIN is the set of keys.                 *)
(*   - a list index: Python's ind (from 0) is ind + 1 here (from 1).       *)
(*   - a str: a TLA+ string; Python's order on them is StrLess.            *)
(***************************************************************************)
EXTENDS Integers, Sequences, FiniteSets

VARIABLES
    \* utils.calc_latencies, one call
    lookup,        \* the argument
    pairs,         \* the sorted list of (createdLatency, key)
    ind,           \* the loop index (Python's ind + 1)
    begin_ms,      \* dict key -> begin of its window
    latency_ms,    \* dict key -> duration of its window
    result,        \* <<>> until the call returns, then <<returned value>>
    pc,            \* "entry" | "loop" | "done" | "idle" (no call); in a run of
                   \* main: "main" | "dir" | "file" | "exit"
    \* one metric object and the sessions it is updated with
    metric,        \* the object: its class and its attributes
    cur_session,   \* <<>>, or <<the session read last, with its derived fields>>
    fed,           \* whether update has been called with cur_session
    updates,       \* the number of update calls so far
    printed,       \* <<>> until print is called, then <<what it left>>
    \* one run of main: the same entry of every metric set
    entry,         \* the position in make_all_metrics that is followed (0: none)
    agg_metrics,   \* <<>> (None), or <<the object of the aggregate set>>
    files,         \* the number of files processed so far
    processed,     \* the sessions of all files so far, in processing order
    file_sums,     \* the counters of the per-file objects printed so far, summed
    agg_prints     \* the number of print calls on the aggregate object

calc_vars == <<lookup, pairs, ind, begin_ms, latency_ms, result, pc>>

metric_vars == <<metric, cur_session, fed, updates, printed>>

dir_vars == <<entry, agg_metrics, files, processed, file_sums, agg_prints>>

vars == <<calc_vars, metric_vars, dir_vars>>

----------------------------------------------------------------------------
(* Bounds of the model *)

\* the longest lookup (number of suggestions) that is enumerated
MaxLen == 3

----------------------------------------------------------------------------
(* Python values *)

None == <<>>
Some(v) == <<v>>
IsNone(o) == o = <<>>
Get(o) == o[1]

EmptyDict == <<>>

DictSet(d, k, v) == [x \in (DOMAIN d) \cup {k} |-> IF x = k THEN v ELSE d[x]]

DictGet(d, k, default) == IF k \in DOMAIN d THEN d[k] ELSE default

\* main has not been started: no entry is followed, no aggregate set exists
NoRun ==
    /\ entry = 0
    /\ agg_metrics = None
    /\ files = 0
    /\ processed = <<>>
    /\ file_sums = <<>>
    /\ agg_prints = 0

----------------------------------------------------------------------------
(* The input data: suggestions, lookups *)

\* the texts of the suggestions; "foo" is the one the user accepts
Texts == {"foo", "bar"}

\* createdLatency values, in ms
Latencies == {0, 50, 120}

\* The first two entries of TrickyBaselineMetric's allow-list and one
\* identity that is not on it.
K1 == <<"KotlinCompletionContributor",
        "kinds-descriptor-BasicCompletionSession.kt:859-LookupElementsCollector.kt:91">>
K2 == <<"KotlinCompletionContributor", "kind-OverridesCompletion.kt:79">>
KX == <<"JavaCompletionContributor", "kind-JavaCompletionContributor.java:100">>

Identities == {K1, K2, KX}

\* The strings of the identities in Python's str order (code points).
SortedStrings ==
    << "JavaCompletionContributor",
       "KotlinCompletionContributor",
       "kind-BasicCompletionSession.kt:438",
       "kind-BasicCompletionSession.kt:445",
       "kind-BasicCompletionSession.kt:711",
       "kind-JavaCompletionContributor.java:100",
       "kind-OverridesCompletion.kt:79",
       "kinds-descriptor-BasicCompletionSession.kt:859-LookupElementsCollector.kt:91" >>

StrRank(s) == CHOOSE i \in 1..Len(SortedStrings) : SortedStrings[i] = s

\* Python's s < t on str
StrLess(s, t) == StrRank(s) < StrRank(t)

\* Python's k < l on the tuples (contributor, contributorKind)
KeyLess(k, l) == StrLess(k[1], l[1]) \/ (k[1] = l[1] /\ StrLess(k[2], l[2]))

\* The later stages of a suggestion, in ms after its creation: "foo" takes
\* long to reach the result set, the suggestions of K1 take long to render.
ResultsetLag(text) == IF text = "foo" THEN 100 ELSE 0

RenderLag(key) == IF key = K1 THEN 60 ELSE 0

\* the time at which the lookup is shown, with all its suggestions at once
ShownAt == 200

\* A logged suggestion, created at `created`.
MkSuggestion(text, key, created) ==
    [ text |-> text, contributor |-> key[1], contributorKind |-> key[2],
      createdLatency |-> created,
      resultsetLatency |-> created + ResultsetLag(text),
      indicatorLatency |-> created + ResultsetLag(text),
      lookupLatency |-> ShownAt,
      renderedLatency |-> created + ResultsetLag(text) + RenderLag(key) ]

MkLookup(suggestions, popup) ==
    [ suggestions |-> suggestions, popupLatency |-> popup ]

SeqsUpTo(S, n) == UNION { [1..k -> S] : k \in 0..n }

\* Lookups for one call of calc_latencies: every logged order of up to
\* MaxLen suggestions (calc_latencies reads neither text nor popupLatency).
CalcSuggestions == { MkSuggestion("foo", k, l) : k \in Identities, l \in Latencies }

CalcLookups == { MkLookup(s, 0) : s \in SeqsUpTo(CalcSuggestions, MaxLen) }

----------------------------------------------------------------------------
(* utils.py: _make_key, calc_latencies *)

make_key(suggestion) == <<suggestion.contributor, suggestion.contributorKind>>

\* pairs = [(suggestion["createdLatency"], _make_key(suggestion)) for ...]
MakePairs(lkp) ==
    [ i \in 1..Len(lkp.suggestions) |->
        <<lkp.suggestions[i].createdLatency, make_key(lkp.suggestions[i])>> ]

\* A mutant of PairLess: the order looks at the latency only.
PairLess_latency_only(p, q) == p[1] < q[1]

\* Python's p < q on the tuples (latency, key): the latency first, then the key
PairLess(p, q) == p[1] < q[1] \/ (p[1] = q[1] /\ KeyLess(p[2], q[2]))

\* list.sort() places x after every element that is not greater (stable).
Insert(x, sorted) ==
    LET n == Len(sorted)
        keep == { i \in 1..n : ~PairLess(x, sorted[i]) }
        k == IF \A i \in 1..n : i \in keep THEN n
             ELSE (CHOOSE i \in 1..n : i \notin keep /\ \A j \in 1..(i-1) : j \in keep) - 1
    IN SubSeq(sorted, 1, k) \o <<x>> \o SubSeq(sorted, k + 1, n)

RECURSIVE SortFrom(_, _, _)
SortFrom(s, i, acc) ==
    IF i > Len(s) THEN acc ELSE SortFrom(s, i + 1, Insert(s[i], acc))

\* pairs.sort()
SortPairs(s) == SortFrom(s, 1, <<>>)

\* A mutant of InitialBegin: the first window begins at the first timestamp.
InitialBegin_first_timestamp(latency) == latency

\* begin_ms[key] = 0 for the first pair
InitialBegin(latency) == 0

\* A mutant of IsReappearance: the check is left out.
IsReappearance_unchecked(key, begin) == FALSE

\* if key in begin_ms: return None
IsReappearance(key, begin) == key \in DOMAIN begin

\* A mutant of CloseDuration: the window is closed at the current timestamp.
CloseDuration_current(prev_latency, latency, begin) == latency - begin

\* latency_ms[prev_key] = prev_latency - begin_ms[prev_key]
CloseDuration(prev_latency, latency, begin) == prev_latency - begin

\* A mutant of FinalDuration: the last window is not measured from its begin.
FinalDuration_absolute(latency, begin) == latency

\* latency_ms[key] = latency - begin_ms[key]
FinalDuration(latency, begin) == latency - begin

\* The state of the loop: the two dicts, and whether it has left the
\* function (returned: <<>> no, <<None>> by `return None`), or raised.
LoopState(b, l, ret, raised) ==
    [ begin_ms |-> b, latency_ms |-> l, returned |-> ret, raised |-> raised ]

\* One iteration of `for ind, (latency, key) in enumerate(pairs)`.
WalkStep(ps, i, st) ==
    LET latency == ps[i][1]
        key == ps[i][2]
        \* if ind == 0: begin_ms[key] = 0
        b0 == IF i = 1 THEN DictSet(st.begin_ms, key, InitialBegin(latency))
              ELSE st.begin_ms
        prev_latency == ps[i-1][1]
        prev_key == ps[i-1][2]
        changed == i > 1 /\ key # prev_key
    IN  IF changed /\ IsReappearance(key, b0)
        THEN LoopState(b0, st.latency_ms, Some(None), FALSE)
        \* a dict read of a missing key raises KeyError
        ELSE IF changed /\ prev_key \notin DOMAIN b0
        THEN LoopState(b0, st.latency_ms, None, TRUE)
        ELSE
          LET l1 == IF changed
                    THEN DictSet(st.latency_ms, prev_key,
                                 CloseDuration(prev_latency, latency, b0[prev_key]))
                    ELSE st.latency_ms
              b1 == IF changed THEN DictSet(b0, key, prev_latency) ELSE b0
          IN  IF i = Len(ps)
              THEN IF key \notin DOMAIN b1
                   THEN LoopState(b1, l1, None, TRUE)
                   ELSE LoopState(b1, DictSet(l1, key, FinalDuration(latency, b1[key])),
                                  None, FALSE)
              ELSE LoopState(b1, l1, None, FALSE)

RECURSIVE Walk(_, _, _)
Walk(ps, i, st) ==
    IF st.raised \/ ~IsNone(st.returned) \/ i > Len(ps) THEN st
    ELSE Walk(ps, i + 1, WalkStep(ps, i, st))

\* What a call leaves: it raised, or it returned val (None, or <<dict>>).
Raised == [ raised |-> TRUE, val |-> None ]
Returned(v) == [ raised |-> FALSE, val |-> v ]

\* The value the loop's final state makes the function return.
Outcome(st) ==
    IF st.raised THEN Raised
    ELSE IF ~IsNone(st.returned) THEN Returned(None)
    ELSE Returned(Some(st.latency_ms))

\* calc_latencies(lookup), as one call
calc_latencies(lkp) ==
    IF Len(lkp.suggestions) = 0 THEN Returned(Some(EmptyDict))
    ELSE Outcome(Walk(SortPairs(MakePairs(lkp)), 1,
                      LoopState(EmptyDict, EmptyDict, None, FALSE)))

----------------------------------------------------------------------------
(* One call of calc_latencies, an iteration of its loop at a time *)

CalcInit ==
    /\ lookup \in CalcLookups
    /\ pairs = <<>>
    /\ ind = 0
    /\ begin_ms = EmptyDict
    /\ latency_ms = EmptyDict
    /\ result = None
    /\ pc = "entry"
    /\ metric = <<>>
    /\ cur_session = None
    /\ fed = FALSE
    /\ updates = 0
    /\ printed = None
    /\ NoRun

\* lines 71-81: the empty lookup returns {}; otherwise the pairs are sorted
CalcEntry ==
    /\ pc = "entry"
    /\ IF Len(lookup.suggestions) = 0
       THEN /\ result' = Some(Returned(Some(EmptyDict)))
            /\ pc' = "done"
            /\ UNCHANGED <<pairs, ind>>
       ELSE /\ pairs' = SortPairs(MakePairs(lookup))
            /\ ind' = 1
            /\ pc' = "loop"
            /\ UNCHANGED result
    /\ UNCHANGED <<lookup, begin_ms, latency_ms, metric_vars, dir_vars>>

\* lines 83-98: one iteration
CalcLoop ==
    /\ pc = "loop"
    /\ ind <= Len(pairs)
    /\ LET st == WalkStep(pairs, ind, LoopState(begin_ms, latency_ms, None, FALSE))
       IN  /\ begin_ms' = st.begin_ms
           /\ latency_ms' = st.latency_ms
           /\ IF st.raised \/ ~IsNone(st.returned)
              THEN /\ result' = Some(Outcome(st))
                   /\ pc' = "done"
                   /\ UNCHANGED ind
              ELSE /\ ind' = ind + 1
                   /\ UNCHANGED <<result, pc>>
    /\ UNCHANGED <<lookup, pairs, metric_vars, dir_vars>>

\* line 99: return latency_ms
CalcReturn ==
    /\ pc = "loop"
    /\ ind > Len(pairs)
    /\ result' = Some(Returned(Some(latency_ms)))
    /\ pc' = "done"
    /\ UNCHANGED <<lookup, pairs, ind, begin_ms, latency_ms, metric_vars, dir_vars>>

CalcNext == CalcEntry \/ CalcLoop \/ CalcReturn

SpecCalc == CalcInit /\ [][CalcNext]_vars

----------------------------------------------------------------------------
(* Python numbers *)

(* A latency total is an int, or the float that the "avg" aggregator's     *)
(* true division makes. Both are modelled as the exact fraction <<n, d>>   *)
(* in lowest terms with d > 0; rounding errors of floats are not modelled. *)

RECURSIVE GCD(_, _)
GCD(a, b) == IF b = 0 THEN a ELSE GCD(b, a % b)

Abs(n) == IF n < 0 THEN -n ELSE n

Norm(n, d) ==
    LET g == GCD(Abs(n), Abs(d))
        sgn == IF d < 0 THEN -1 ELSE 1
    IN  <<(sgn * n) \div g, (sgn * d) \div g>>

Num(n) == <<n, 1>>

NumAdd(p, q) == Norm(p[1] * q[2] + q[1] * p[2], p[2] * q[2])

\* a / b raises ZeroDivisionError for b = 0
ZeroDivisionError == <<0, 0>>

IsError(p) == p[2] = 0

Div(p, b) == IF b = 0 THEN ZeroDivisionError ELSE Norm(p[1], p[2] * b)

\* bool(x) of a number: 0 and 0.0 are false
Truthy(p) == p[1] # 0

\* int(b) of a bool, as `self._found += found` adds it
Bool(b) == IF b THEN 1 ELSE 0

\* f"{x:.3f}": the thousandths nearest to x, a tie going to the even one.
\* The value is the number of thousandths (only x >= 0 occurs).
Format3f(p) ==
    LET n == p[1] * 1000
        d == p[2]
        q == n \div d
        r == n % d
    IN  IF 2 * r > d \/ (2 * r = d /\ q % 2 = 1) THEN q + 1 ELSE q

RECURSIVE SumSeq(_, _)
SumSeq(xs, i) == IF i > Len(xs) THEN 0 ELSE xs[i] + SumSeq(xs, i + 1)

\* sum(xs)
sum(xs) == SumSeq(xs, 1)

\* min(xs), max(xs) of a non-empty list of ints
min(xs) == CHOOSE m \in { xs[i] : i \in 1..Len(xs) } : \A i \in 1..Len(xs) : m <= xs[i]
max(xs) == CHOOSE m \in { xs[i] : i \in 1..Len(xs) } : \A i \in 1..Len(xs) : m >= xs[i]

\* The three aggregators make_all_metrics passes as `agg`, by their label:
\* min, lambda xs: sum(xs) / max(len(xs), 1), max.
Agg(label, xs) ==
    CASE label = "min" -> Num(min(xs))
      [] label = "avg" -> Div(Num(sum(xs)), max(<<Len(xs), 1>>))
      [] label = "max" -> Num(max(xs))

\* [f(x) for x in xs if keep(x)], given for each x of xs, in order, the
\* pair <<keep(x), f(x)>>
Kept(item) == item[1]

Comprehension(items) ==
    LET kept == SelectSeq(items, Kept)
    IN  [ i \in 1..Len(kept) |-> kept[i][2] ]

\* the pairs <<keep(x), f(x)>> are written at each use as
\* [ i \in DOMAIN xs |-> <<keep(xs[i]), f(xs[i])>> ]

\* x in xs, for a list xs
In(x, xs) == \E i \in 1..Len(xs) : xs[i] = x

----------------------------------------------------------------------------
(* Sessions *)

\* the longest run of update calls on one metric
MaxUpdates == 2

\* popupLatency of a lookup, in ms
PopupLatencies == {7}

\* the identities of logged sessions: one that TrickyBaselineMetric lists
\* and one that it does not
SessionIdentities == {K1, KX}

Suggestions ==
    { MkSuggestion(t, k, l) : t \in Texts, k \in SessionIdentities, l \in Latencies }

TextRank(t) == IF t = "bar" THEN 1 ELSE 2

\* a precedes b in the order (createdLatency, identity, text)
SuggestionLeq(a, b) ==
    LET pa == <<a.createdLatency, make_key(a)>>
        pb == <<b.createdLatency, make_key(b)>>
    IN  PairLess(pa, pb) \/ (pa = pb /\ TextRank(a.text) <= TextRank(b.text))

\* The lookups the metrics are fed: up to MaxLen suggestions, logged in
\* the order of their creation (one logged order for each collection of
\* suggestions; every logged order is covered for calc_latencies above).
LoggedLookups ==
    { MkLookup(s, p) :
        s \in { q \in SeqsUpTo(Suggestions, MaxLen) :
                  \A i \in 1..(Len(q) - 1) : SuggestionLeq(q[i], q[i + 1]) },
        p \in PopupLatencies }

\* A session as read from the log: the user accepted "foo".
Session(text, lkp) == [ expectedText |-> text, lookups |-> <<lkp>> ]

Sessions == { Session("foo", l) : l \in LoggedLookups }

\* process_file, lines 477-479: the derived fields
Annotate(s) ==
    LET latencies == calc_latencies(s.lookups[1]).val
    IN  [ expectedText |-> s.expectedText, lookups |-> s.lookups,
          latencies |-> latencies, is_contiguous |-> ~IsNone(latencies) ]

----------------------------------------------------------------------------
(* script.py: get_variants *)

\* delay_ms is None (<<>>) or <<a number of ms>>; `if delay_ms:` is false
\* for None and for 0.
get_variants(session, delay_ms, latency_name) ==
    LET lkp == session.lookups[1]
        All(x) == TRUE
        Value(x) == x[latency_name]
        Text(x) == x.text
    IN  IF ~IsNone(delay_ms) /\ Get(delay_ms) # 0
        THEN LET latencies == Comprehension(
                                  [ i \in DOMAIN lkp.suggestions |->
                                      << All(lkp.suggestions[i]),
                                         Value(lkp.suggestions[i]) >> ])
             IN  IF Len(latencies) = 0 THEN <<>>
                 ELSE LET min_latency == min(latencies)
                          Within(x) == x[latency_name] <= min_latency + Get(delay_ms)
                      IN  Comprehension(
                              [ i \in DOMAIN lkp.suggestions |->
                                  << Within(lkp.suggestions[i]),
                                     Text(lkp.suggestions[i]) >> ])
        ELSE Comprehension(
                 [ i \in DOMAIN lkp.suggestions |->
                     << All(lkp.suggestions[i]),
                        Text(lkp.suggestions[i]) >> ])

----------------------------------------------------------------------------
(* script.py: the metrics. A metric object is a record: cls is its class, *)
(* the other fields are its attributes (self._found is found, ...).       *)

\* One printed line: the ratio as formatted by :.3f, and the two numbers
\* it is the ratio of.
Line(ratio, num, den) == [ ratio |-> Format3f(ratio), num |-> num, den |-> den ]

\* What print() leaves: it raised ZeroDivisionError, or it printed lines.
Printed(ratios, lines) ==
    IF \E r \in ratios : IsError(r)
    THEN [ raised |-> TRUE, lines |-> <<>> ]
    ELSE [ raised |-> FALSE, lines |-> lines ]

\* A mutant of RatioOrZero: the division is not guarded.
RatioOrZero_unguarded(num, den) == Div(num, den)

\* ratio = num / den if den else 0
RatioOrZero(num, den) == IF den # 0 THEN Div(num, den) ELSE Num(0)

\* print() of the metrics that report one guarded ratio of two ints
PrintRatio(num, den) ==
    LET ratio == RatioOrZero(Num(num), den)
    IN  Printed({ratio}, << Line(ratio, num, den) >>)

\* print() of the metrics that report a guarded mean of a latency total,
\* the total itself printed with :.3f
PrintMean(total, den) ==
    LET ratio == RatioOrZero(total, den)
    IN  Printed({ratio}, << Line(ratio, Format3f(total), den) >>)

(* class Recall *)

Recall == [ cls |-> "Recall", found |-> 0, count |-> 0 ]

Recall_update(m, session) ==
    LET text == session.expectedText
        variants == get_variants(session, None, "createdLatency")
        found == In(text, variants)
    IN  [ m EXCEPT !.found = @ + Bool(found), !.count = @ + 1 ]

Recall_print(m) == PrintRatio(m.found, m.count)

(* class ContiguousRecall *)

ContiguousRecall == [ cls |-> "ContiguousRecall", found |-> 0, count |-> 0, skipped |-> 0 ]

\* A mutant of ContiguousRecall_update: the skip does not return.
ContiguousRecall_update_no_return(m, session) ==
    LET found == In(session.expectedText, get_variants(session, None, "createdLatency"))
    IN  [ m EXCEPT !.skipped = @ + Bool(~session.is_contiguous),
                   !.found = @ + Bool(found), !.count = @ + 1 ]

ContiguousRecall_update(m, session) ==
    IF ~session.is_contiguous
    THEN [ m EXCEPT !.skipped = @ + 1 ]
    ELSE LET text == session.expectedText
             variants == get_variants(session, None, "createdLatency")
             found == In(text, variants)
         IN  [ m EXCEPT !.found = @ + Bool(found), !.count = @ + 1 ]

ContiguousRecall_print(m) == PrintRatio(m.found, m.count)

(* class ApproxRecall *)

ApproxRecall(delay_ms) ==
    [ cls |-> "ApproxRecall", found |-> 0, count |-> 0, delay_ms |-> delay_ms ]

ApproxRecall_update(m, session) ==
    LET text == session.expectedText
        variants == get_variants(session, Some(m.delay_ms), "createdLatency")
        found == In(text, variants)
    IN  [ m EXCEPT !.found = @ + Bool(found), !.count = @ + 1 ]

ApproxRecall_print(m) == PrintRatio(m.found, m.count)

(* class ContiguousApproxRecall *)

ContiguousApproxRecall(delay_ms) ==
    [ cls |-> "ContiguousApproxRecall", found |-> 0, count |-> 0,
      delay_ms |-> delay_ms, skipped |-> 0 ]

ContiguousApproxRecall_update(m, session) ==
    IF ~session.is_contiguous
    THEN [ m EXCEPT !.skipped = @ + 1 ]
    ELSE LET text == session.expectedText
             variants == get_variants(session, Some(m.delay_ms), "createdLatency")
             found == In(text, variants)
         IN  [ m EXCEPT !.found = @ + Bool(found), !.count = @ + 1 ]

ContiguousApproxRecall_print(m) == PrintRatio(m.found, m.count)

(* is_contiguous, class ContiguousKinds *)

\* A mutant of is_contiguous: the identities of all pairs are counted, not
\* only those of the first pair of each run.
is_contiguous_counts_suggestions(session, latency_name) ==
    LET suggestions == session.lookups[1].suggestions
        counts == { Cardinality({ i \in 1..Len(suggestions) :
                                   make_key(suggestions[i]) = make_key(suggestions[j]) }) :
                      j \in 1..Len(suggestions) }
    IN  \A c \in counts : c = 1

is_contiguous(session, latency_name) ==
    LET suggestions == session.lookups[1].suggestions
    IN  IF Len(suggestions) = 0 THEN TRUE
        ELSE
          LET ps == SortPairs([ i \in 1..Len(suggestions) |->
                        << suggestions[i][latency_name],
                           <<suggestions[i].contributor, suggestions[i].contributorKind>> >> ])
              \* the first pair of every run of one identity
              heads == { i \in 1..Len(ps) : i = 1 \/ ps[i][2] # ps[i - 1][2] }
              \* collections.Counter(kinds)
              counter == [ k \in { ps[i][2] : i \in heads } |->
                             Cardinality({ i \in heads : ps[i][2] = k }) ]
              \* counter.most_common(1)[0][1]
              most == CHOOSE c \in { counter[k] : k \in DOMAIN counter } :
                          \A k \in DOMAIN counter : counter[k] <= c
          IN  most = 1

ContiguousKinds(latency_name) ==
    [ cls |-> "ContiguousKinds", good |-> 0, count |-> 0, latency_name |-> latency_name ]

ContiguousKinds_update(m, session) ==
    [ m EXCEPT !.count = @ + 1,
               !.good = @ + Bool(is_contiguous(session, m.latency_name)) ]

ContiguousKinds_print(m) == PrintRatio(m.good, m.count)

(* class MeanPopupLatency *)

MeanPopupLatency == [ cls |-> "MeanPopupLatency", total_popup_latency |-> 0, count |-> 0 ]

MeanPopupLatency_update(m, session) ==
    [ m EXCEPT !.total_popup_latency = @ + session.lookups[1].popupLatency,
               !.count = @ + 1 ]

MeanPopupLatency_print(m) == PrintRatio(m.total_popup_latency, m.count)

(* The update of the three latency means: `if latency:` is false for None *)
(* and for a latency of 0.                                                *)

AddLatency(m, latency) ==
    IF ~IsNone(latency) /\ Truthy(Get(latency))
    THEN [ m EXCEPT !.total_latency = NumAdd(@, Get(latency)), !.count = @ + 1 ]
    ELSE [ m EXCEPT !.skipped = @ + 1 ]

(* class MeanOptimisticOracleLatency *)

MeanOptimisticOracleLatency(label) ==
    [ cls |-> "MeanOptimisticOracleLatency", total_latency |-> Num(0), count |-> 0,
      skipped |-> 0, label |-> label ]

MeanOptimisticOracleLatency_calc_latency(m, text, lkp) ==
    LET Matches(x) == text = x.text
        Created(x) == x.createdLatency
        latencies == Comprehension(
                         [ i \in DOMAIN lkp.suggestions |->
                             << Matches(lkp.suggestions[i]),
                                Created(lkp.suggestions[i]) >> ])
    IN  IF Len(latencies) # 0 THEN Some(Agg(m.label, latencies)) ELSE None

MeanOptimisticOracleLatency_update(m, session) ==
    AddLatency(m, MeanOptimisticOracleLatency_calc_latency(
                      m, session.expectedText, session.lookups[1]))

MeanOptimisticOracleLatency_print(m) == PrintMean(m.total_latency, m.count)

(* class MeanReorderOracleLatency *)

MeanReorderOracleLatency(label) ==
    [ cls |-> "MeanReorderOracleLatency", total_latency |-> Num(0), count |-> 0,
      skipped |-> 0, label |-> label ]

\* lines 323-338, the method's own copy of the walk: None when a key is
\* not contiguous, else <<latency_ms>>
RECURSIVE MeanReorderOracleLatency_walk(_, _, _, _)
MeanReorderOracleLatency_walk(ps, i, begin, lat) ==
    IF i > Len(ps) THEN Some(lat)
    ELSE
      LET latency == ps[i][1]
          key == ps[i][2]
          b0 == IF i = 1 THEN DictSet(begin, key, 0) ELSE begin
          prev_latency == ps[i - 1][1]
          prev_key == ps[i - 1][2]
          changed == i > 1 /\ key # prev_key
      IN  IF changed /\ key \in DOMAIN b0 THEN None
          ELSE
            LET l1 == IF changed
                      THEN DictSet(lat, prev_key, prev_latency - b0[prev_key])
                      ELSE lat
                b1 == IF changed THEN DictSet(b0, key, prev_latency) ELSE b0
                l2 == IF i = Len(ps) THEN DictSet(l1, key, latency - b1[key]) ELSE l1
            IN  MeanReorderOracleLatency_walk(ps, i + 1, b1, l2)

\* A mutant of MeanReorderOracleLatency_calc_latency: the raw createdLatency
\* values are aggregated, without the walk.
MeanReorderOracleLatency_calc_latency_raw(m, text, lkp) ==
    MeanOptimisticOracleLatency_calc_latency(m, text, lkp)

MeanReorderOracleLatency_calc_latency(m, text, lkp) ==
    IF Len(lkp.suggestions) = 0 THEN None
    ELSE
      LET ps == SortPairs([ i \in 1..Len(lkp.suggestions) |->
                    << lkp.suggestions[i].createdLatency,
                       <<lkp.suggestions[i].contributor,
                         lkp.suggestions[i].contributorKind>> >> ])
          walked == MeanReorderOracleLatency_walk(ps, 1, EmptyDict, EmptyDict)
      IN  IF IsNone(walked) THEN None
          ELSE
            LET Matches(x) == text = x.text
                Attributed(x) == Get(walked)[<<x.contributor, x.contributorKind>>]
                latencies == Comprehension(
                                 [ i \in DOMAIN lkp.suggestions |->
                                     << Matches(lkp.suggestions[i]),
                                        Attributed(lkp.suggestions[i]) >> ])
            IN  IF Len(latencies) # 0 THEN Some(Agg(m.label, latencies)) ELSE None

MeanReorderOracleLatency_update(m, session) ==
    AddLatency(m, MeanReorderOracleLatency_calc_latency(
                      m, session.expectedText, session.lookups[1]))

MeanReorderOracleLatency_print(m) == PrintMean(m.total_latency, m.count)

(* class MeanApproxLatency *)

MeanApproxLatency(delay_ms) ==
    [ cls |-> "MeanApproxLatency", total_latency |-> Num(0), count |-> 0,
      skipped |-> 0, delay_ms |-> delay_ms ]

MeanApproxLatency_calc_latency(m, text, lkp) ==
    LET All(x) == TRUE
        Created(x) == x.createdLatency
        latencies == Comprehension(
                         [ i \in DOMAIN lkp.suggestions |->
                             << All(lkp.suggestions[i]),
                                Created(lkp.suggestions[i]) >> ])
    IN  IF Len(latencies) = 0 THEN None
        ELSE Some(Num(min(latencies) + m.delay_ms))

MeanApproxLatency_update(m, session) ==
    AddLatency(m, MeanApproxLatency_calc_latency(
                      m, session.expectedText, session.lookups[1]))

MeanApproxLatency_print(m) == PrintMean(m.total_latency, m.count)

(* class ContributorKindRecall: kinds is a Counter keyed by contributorKind. *)
(* The order of the printed lines is not modelled: lines maps each key to    *)
(* its line.                                                                 *)

ContributorKindRecall == [ cls |-> "ContributorKindRecall", kinds |-> EmptyDict, count |-> 0 ]

ContributorKindRecall_update(m, session) ==
    LET text == session.expectedText
        suggestions == session.lookups[1].suggestions
        seen == { suggestions[i].contributorKind : i \in 1..Len(suggestions) }
        Hits(kind) == Cardinality({ i \in 1..Len(suggestions) :
                          suggestions[i].contributorKind = kind /\ text = suggestions[i].text })
    IN  [ m EXCEPT !.kinds = [ kind \in (DOMAIN m.kinds) \cup seen |->
                                 DictGet(m.kinds, kind, 0) + Hits(kind) ],
                   !.count = @ + 1 ]

ContributorKindRecall_print(m) ==
    LET ratio(kind) == RatioOrZero(Num(m.kinds[kind]), m.count)
    IN  Printed({ ratio(kind) : kind \in DOMAIN m.kinds },
                [ kind \in DOMAIN m.kinds |-> Line(ratio(kind), m.kinds[kind], m.count) ])

(* class ContributorKindDuration: kinds (a Counter) and latencies are keyed *)
(* by the identity (contributor, contributorKind).                          *)

ContributorKindDuration ==
    [ cls |-> "ContributorKindDuration", kinds |-> EmptyDict, latencies |-> EmptyDict,
      count |-> 0, skipped |-> 0 ]

ContributorKindDuration_update(m, session) ==
    LET attributed == session.latencies
    IN  IF IsNone(attributed)
        THEN [ m EXCEPT !.count = @ + 1, !.skipped = @ + 1 ]
        ELSE
          LET d == Get(attributed)
          IN  [ m EXCEPT
                  !.count = @ + 1,
                  !.kinds = [ kind \in (DOMAIN m.kinds) \cup (DOMAIN d) |->
                                DictGet(m.kinds, kind, 0) + Bool(kind \in DOMAIN d) ],
                  !.latencies = [ kind \in (DOMAIN m.latencies) \cup (DOMAIN d) |->
                                    DictGet(m.latencies, kind, 0) + DictGet(d, kind, 0) ] ]

\* avg_duration = latency / self._kinds[kind]: not guarded; a Counter reads
\* a missing key as 0
ContributorKindDuration_print(m) ==
    LET cnt(kind) == DictGet(m.kinds, kind, 0)
        avg(kind) == Div(Num(m.latencies[kind]), cnt(kind))
    IN  Printed({ avg(kind) : kind \in DOMAIN m.latencies },
                [ kind \in DOMAIN m.latencies |->
                    Line(avg(kind), m.latencies[kind], cnt(kind)) ])

(* class TrickyBaselineMetric *)

TrickyBaselineMetric ==
    [ cls |-> "TrickyBaselineMetric", total_latency |-> 0, count |-> 0,
      skipped |-> 0, found |-> 0 ]

\* the list of kinds that update walks, in its order
TrickyKinds ==
    << K1,
       K2,
       <<"KotlinCompletionContributor", "kind-BasicCompletionSession.kt:711">>,
       <<"KotlinCompletionContributor", "kind-BasicCompletionSession.kt:438">>,
       <<"KotlinCompletionContributor", "kind-BasicCompletionSession.kt:445">> >>

\* the first kind of the list that is in latencies (the loop breaks at it),
\* as <<kind>>; <<>> when none is
FirstTrickyKind(latencies) ==
    LET hits == { i \in 1..Len(TrickyKinds) : TrickyKinds[i] \in DOMAIN latencies }
    IN  IF hits = {} THEN None
        ELSE Some(TrickyKinds[CHOOSE i \in hits : \A j \in hits : i <= j])

\* total_latency and found after the loop over the kinds
TrickyBaselineMetric_loop(m, session) ==
    LET latencies == Get(session.latencies)
        first == FirstTrickyKind(latencies)
    IN  IF IsNone(first) THEN m
        ELSE
          LET kind == Get(first)
              text == session.expectedText
              OfKind(x) == kind = <<x.contributor, x.contributorKind>>
              Text(x) == x.text
              texts == Comprehension(
                           [ i \in DOMAIN session.lookups[1].suggestions |->
                               << OfKind(session.lookups[1].suggestions[i]),
                                  Text(session.lookups[1].suggestions[i]) >> ])
          IN  [ m EXCEPT !.total_latency = @ + latencies[kind],
                         !.found = @ + Bool(In(text, texts)) ]

\* A mutant of TrickyBaselineMetric_update: count is incremented only for
\* a session in which a kind of the list is found.
TrickyBaselineMetric_update_count_matched(m, session) ==
    IF IsNone(session.latencies)
    THEN [ m EXCEPT !.skipped = @ + 1 ]
    ELSE LET after == TrickyBaselineMetric_loop(m, session)
         IN  [ after EXCEPT
                 !.count = @ + Bool(~IsNone(FirstTrickyKind(Get(session.latencies)))) ]

\* (lines 403-404 stop in a debugger when latencies is None and
\* is_contiguous is true, which process_file never sets together.)
TrickyBaselineMetric_update(m, session) ==
    IF IsNone(session.latencies)
    THEN [ m EXCEPT !.skipped = @ + 1 ]
    ELSE TrickyBaselineMetric_loop([ m EXCEPT !.count = @ + 1 ], session)

TrickyBaselineMetric_print(m) ==
    LET latency == RatioOrZero(Num(m.total_latency), m.count)
        recall == RatioOrZero(Num(m.found), m.count)
    IN  Printed({latency, recall},
                << Line(latency, Format3f(Num(m.total_latency)), m.count),
                   Line(recall, m.found, m.count) >>)

(* make_all_metrics *)

make_all_metrics ==
    << Recall,
       ContiguousRecall,
       ApproxRecall(50),
       ContiguousApproxRecall(50),
       ApproxRecall(100),
       ContiguousApproxRecall(100),
       ApproxRecall(200),
       ContiguousApproxRecall(200),
       ApproxRecall(250),
       ContiguousApproxRecall(250),
       ContiguousKinds("createdLatency"),
       ContiguousKinds("resultsetLatency"),
       ContiguousKinds("indicatorLatency"),
       ContiguousKinds("lookupLatency"),
       ContiguousKinds("renderedLatency"),
       MeanPopupLatency,
       MeanOptimisticOracleLatency("min"),
       MeanOptimisticOracleLatency("avg"),
       MeanOptimisticOracleLatency("max"),
       MeanReorderOracleLatency("min"),
       MeanReorderOracleLatency("avg"),
       MeanReorderOracleLatency("max"),
       MeanApproxLatency(0),
       MeanApproxLatency(100),
       ContributorKindRecall,
       ContributorKindDuration,
       TrickyBaselineMetric >>


----------------------------------------------------------------------------
(* One metric object: sessions are read and annotated as process_file     *)
(* does, update is called with each, print is called at the end.          *)

Range(f) == { f[i] : i \in DOMAIN f }

\* a delay_ms that make_all_metrics does not pass to ApproxRecall
OtherDelays == {0}

\* The objects: those of make_all_metrics, and the recalls of the other delays.
Metrics ==
    Range(make_all_metrics)
      \cup { ApproxRecall(d) : d \in OtherDelays }
      \cup { ContiguousApproxRecall(d) : d \in OtherDelays }

\* the sessions of a log whose annotation does not raise
AnnotatedSessions ==
    { Annotate(s) : s \in { t \in Sessions : ~calc_latencies(t.lookups[1]).raised } }

Init ==
    /\ metric \in Metrics
    /\ cur_session = None
    /\ fed = FALSE
    /\ updates = 0
    /\ printed = None
    /\ lookup = MkLookup(<<>>, 0)
    /\ pairs = <<>>
    /\ ind = 0
    /\ begin_ms = EmptyDict
    /\ latency_ms = EmptyDict
    /\ result = None
    /\ pc = "idle"
    /\ NoRun

\* between two sessions, or after the last one
AtRest == IsNone(printed) /\ IsNone(cur_session)

\* process_file, lines 476-479: the next session of the file, annotated
ReadSession ==
    /\ AtRest
    /\ updates < MaxUpdates
    /\ \E s \in AnnotatedSessions : cur_session' = Some(s)
    /\ fed' = FALSE
    /\ UNCHANGED <<metric, updates, printed, calc_vars, dir_vars>>

\* process_file, lines 481-482: metric.update(session)
CallUpdate(cls, after) ==
    /\ IsNone(printed)
    /\ ~IsNone(cur_session)
    /\ ~fed
    /\ metric.cls = cls
    /\ metric' = after
    /\ fed' = TRUE
    /\ updates' = updates + 1
    /\ UNCHANGED <<cur_session, printed, calc_vars, dir_vars>>

\* process_file, line 476: the loop goes on; the session is not kept
EndIteration ==
    /\ IsNone(printed)
    /\ ~IsNone(cur_session)
    /\ fed
    /\ cur_session' = None
    /\ fed' = FALSE
    /\ UNCHANGED <<metric, updates, printed, calc_vars, dir_vars>>

\* process_file, lines 491-493: metric.print(), after the last session
CallPrint(cls, output) ==
    /\ AtRest
    /\ metric.cls = cls
    /\ printed' = Some(output)
    /\ UNCHANGED <<metric, cur_session, fed, updates, calc_vars, dir_vars>>

RecallUpdate == CallUpdate("Recall", Recall_update(metric, Get(cur_session)))

RecallPrint == CallPrint("Recall", Recall_print(metric))

ContiguousRecallUpdate == CallUpdate("ContiguousRecall", ContiguousRecall_update(metric, Get(cur_session)))

ContiguousRecallPrint == CallPrint("ContiguousRecall", ContiguousRecall_print(metric))

ApproxRecallUpdate == CallUpdate("ApproxRecall", ApproxRecall_update(metric, Get(cur_session)))

ApproxRecallPrint == CallPrint("ApproxRecall", ApproxRecall_print(metric))

ContiguousApproxRecallUpdate == CallUpdate("ContiguousApproxRecall", ContiguousApproxRecall_update(metric, Get(cur_session)))

ContiguousApproxRecallPrint == CallPrint("ContiguousApproxRecall", ContiguousApproxRecall_print(metric))

ContiguousKindsUpdate == CallUpdate("ContiguousKinds", ContiguousKinds_update(metric, Get(cur_session)))

ContiguousKindsPrint == CallPrint("ContiguousKinds", ContiguousKinds_print(metric))

MeanPopupLatencyUpdate == CallUpdate("MeanPopupLatency", MeanPopupLatency_update(metric, Get(cur_session)))

MeanPopupLatencyPrint == CallPrint("MeanPopupLatency", MeanPopupLatency_print(metric))

MeanOptimisticOracleLatencyUpdate == CallUpdate("MeanOptimisticOracleLatency", MeanOptimisticOracleLatency_update(metric, Get(cur_session)))

MeanOptimisticOracleLatencyPrint == CallPrint("MeanOptimisticOracleLatency", MeanOptimisticOracleLatency_print(metric))

MeanReorderOracleLatencyUpdate == CallUpdate("MeanReorderOracleLatency", MeanReorderOracleLatency_update(metric, Get(cur_session)))

MeanReorderOracleLatencyPrint == CallPrint("MeanReorderOracleLatency", MeanReorderOracleLatency_print(metric))

MeanApproxLatencyUpdate == CallUpdate("MeanApproxLatency", MeanApproxLatency_update(metric, Get(cur_session)))

MeanApproxLatencyPrint == CallPrint("MeanApproxLatency", MeanApproxLatency_print(metric))

ContributorKindRecallUpdate == CallUpdate("ContributorKindRecall", ContributorKindRecall_update(metric, Get(cur_session)))

ContributorKindRecallPrint == CallPrint("ContributorKindRecall", ContributorKindRecall_print(metric))

ContributorKindDurationUpdate == CallUpdate("ContributorKindDuration", ContributorKindDuration_update(metric, Get(cur_session)))

ContributorKindDurationPrint == CallPrint("ContributorKindDuration", ContributorKindDuration_print(metric))

TrickyBaselineMetricUpdate == CallUpdate("TrickyBaselineMetric", TrickyBaselineMetric_update(metric, Get(cur_session)))

TrickyBaselineMetricPrint == CallPrint("TrickyBaselineMetric", TrickyBaselineMetric_print(metric))

Next ==
    \/ ReadSession
    \/ EndIteration
    \/ RecallUpdate
    \/ RecallPrint
    \/ ContiguousRecallUpdate
    \/ ContiguousRecallPrint
    \/ ApproxRecallUpdate
    \/ ApproxRecallPrint
    \/ ContiguousApproxRecallUpdate
    \/ ContiguousApproxRecallPrint
    \/ ContiguousKindsUpdate
    \/ ContiguousKindsPrint
    \/ MeanPopupLatencyUpdate
    \/ MeanPopupLatencyPrint
    \/ MeanOptimisticOracleLatencyUpdate
    \/ MeanOptimisticOracleLatencyPrint
    \/ MeanReorderOracleLatencyUpdate
    \/ MeanReorderOracleLatencyPrint
    \/ MeanApproxLatencyUpdate
    \/ MeanApproxLatencyPrint
    \/ ContributorKindRecallUpdate
    \/ ContributorKindRecallPrint
    \/ ContributorKindDurationUpdate
    \/ ContributorKindDurationPrint
    \/ TrickyBaselineMetricUpdate
    \/ TrickyBaselineMetricPrint

Spec == Init /\ [][Next]_vars

----------------------------------------------------------------------------
(* script.py: main, process_dir, process_file. One run of main is followed *)
(* for one entry of the metric sets: the object of the per-file set that   *)
(* process_file builds, and the object of the aggregate set that           *)
(* process_dir builds and hands to every process_file call.                *)

\* the most files of a directory
MaxFiles == 2

\* the most sessions of a whole run
MaxDirSessions == 3

\* metric.update(session), by the class of the object
Metric_update(m, session) ==
    CASE m.cls = "Recall" -> Recall_update(m, session)
      [] m.cls = "ContiguousRecall" -> ContiguousRecall_update(m, session)
      [] m.cls = "ApproxRecall" -> ApproxRecall_update(m, session)
      [] m.cls = "ContiguousApproxRecall" -> ContiguousApproxRecall_update(m, session)
      [] m.cls = "ContiguousKinds" -> ContiguousKinds_update(m, session)
      [] m.cls = "MeanPopupLatency" -> MeanPopupLatency_update(m, session)
      [] m.cls = "MeanOptimisticOracleLatency" -> MeanOptimisticOracleLatency_update(m, session)
      [] m.cls = "MeanReorderOracleLatency" -> MeanReorderOracleLatency_update(m, session)
      [] m.cls = "MeanApproxLatency" -> MeanApproxLatency_update(m, session)
      [] m.cls = "ContributorKindRecall" -> ContributorKindRecall_update(m, session)
      [] m.cls = "ContributorKindDuration" -> ContributorKindDuration_update(m, session)
      [] m.cls = "TrickyBaselineMetric" -> TrickyBaselineMetric_update(m, session)

\* metric.print(), by the class of the object
Metric_print(m) ==
    CASE m.cls = "Recall" -> Recall_print(m)
      [] m.cls = "ContiguousRecall" -> ContiguousRecall_print(m)
      [] m.cls = "ApproxRecall" -> ApproxRecall_print(m)
      [] m.cls = "ContiguousApproxRecall" -> ContiguousApproxRecall_print(m)
      [] m.cls = "ContiguousKinds" -> ContiguousKinds_print(m)
      [] m.cls = "MeanPopupLatency" -> MeanPopupLatency_print(m)
      [] m.cls = "MeanOptimisticOracleLatency" -> MeanOptimisticOracleLatency_print(m)
      [] m.cls = "MeanReorderOracleLatency" -> MeanReorderOracleLatency_print(m)
      [] m.cls = "MeanApproxLatency" -> MeanApproxLatency_print(m)
      [] m.cls = "ContributorKindRecall" -> ContributorKindRecall_print(m)
      [] m.cls = "ContributorKindDuration" -> ContributorKindDuration_print(m)
      [] m.cls = "TrickyBaselineMetric" -> TrickyBaselineMetric_print(m)

\* A mutant of UpdateAggregate: every process_file call begins with a new
\* aggregate object.
UpdateAggregate_reset_per_file(agg, fresh, first, session) ==
    IF IsNone(agg) THEN agg
    ELSE Some(Metric_update(IF first THEN fresh ELSE Get(agg), session))

\* process_file, lines 483-485: `if agg_metrics:` is false for None; the
\* object is updated in place (fresh is a new object of the entry, first
\* says whether the session is the first of its file: neither is used)
UpdateAggregate(agg, fresh, first, session) ==
    IF IsNone(agg) THEN agg ELSE Some(Metric_update(Get(agg), session))

\* The additive counters of an object, as numbers; a counter that the
\* class does not have is 0.
Counters(m) ==
    LET Field(f) == IF f \in DOMAIN m THEN Num(m[f]) ELSE Num(0)
    IN  [ found |-> Field("found"),
          good |-> Field("good"),
          count |-> Field("count"),
          skipped |-> Field("skipped"),
          total |-> IF "total_popup_latency" \in DOMAIN m THEN Num(m.total_popup_latency)
                    ELSE IF "total_latency" \notin DOMAIN m THEN Num(0)
                    ELSE IF m.cls = "TrickyBaselineMetric" THEN Num(m.total_latency)
                    ELSE m.total_latency ]

NoCounters ==
    [ found |-> Num(0), good |-> Num(0), count |-> Num(0), skipped |-> Num(0),
      total |-> Num(0) ]

CountersAdd(a, b) == [ f \in DOMAIN a |-> NumAdd(a[f], b[f]) ]

\* The sessions of the files: the empty lookup, and the lookups of three
\* suggestions "bar", "foo", "foo" created at 0, 50 and 120 ms, the first
\* one of K1 (with every choice of the other identities) or all three of KX.
DirSessions ==
    { s \in AnnotatedSessions :
        LET xs == s.lookups[1].suggestions
        IN  \/ Len(xs) = 0
            \/ /\ Len(xs) = 3
               /\ <<xs[1].text, xs[2].text, xs[3].text>> = <<"bar", "foo", "foo">>
               /\ <<xs[1].createdLatency, xs[2].createdLatency, xs[3].createdLatency>>
                     = <<0, 50, 120>>
               /\ \/ make_key(xs[1]) = K1
                  \/ \A i \in 1..3 : make_key(xs[i]) = KX }

DirInit ==
    /\ entry \in 1..Len(make_all_metrics)
    /\ metric = make_all_metrics[entry]
    /\ agg_metrics = None
    /\ files = 0
    /\ processed = <<>>
    /\ file_sums = NoCounters
    /\ agg_prints = 0
    /\ cur_session = None
    /\ fed = FALSE
    /\ updates = 0
    /\ printed = None
    /\ lookup = MkLookup(<<>>, 0)
    /\ pairs = <<>>
    /\ ind = 0
    /\ begin_ms = EmptyDict
    /\ latency_ms = EmptyDict
    /\ result = None
    /\ pc = "main"

\* process_file, lines 469-474: the per-file set is built anew
EnterFile ==
    /\ metric' = make_all_metrics[entry]
    /\ updates' = 0
    /\ printed' = None
    /\ cur_session' = None
    /\ pc' = "file"

\* main, lines 512-513: the path is a file; process_file(path) gets no
\* aggregate set
MainFile ==
    /\ pc = "main"
    /\ EnterFile
    /\ UNCHANGED <<fed, lookup, pairs, ind, begin_ms, latency_ms, result, dir_vars>>

\* main, lines 514-515, process_dir, line 497: the aggregate set is built
MainDir ==
    /\ pc = "main"
    /\ agg_metrics' = Some(make_all_metrics[entry])
    /\ pc' = "dir"
    /\ UNCHANGED <<lookup, pairs, ind, begin_ms, latency_ms, result, metric_vars,
                   entry, files, processed, file_sums, agg_prints>>

\* process_dir, lines 498-500: process_file is called with the next file
DirNextFile ==
    /\ pc = "dir"
    /\ files < MaxFiles
    /\ EnterFile
    /\ UNCHANGED <<fed, lookup, pairs, ind, begin_ms, latency_ms, result, dir_vars>>

\* process_file, lines 476-479: the next session of the file, annotated
FileReadSession ==
    /\ pc = "file"
    /\ IsNone(cur_session)
    /\ Len(processed) < MaxDirSessions
    /\ \E s \in DirSessions : cur_session' = Some(s)
    /\ UNCHANGED <<metric, fed, updates, printed, calc_vars, dir_vars>>

\* process_file, lines 481-485: the per-file object is updated, then the
\* aggregate object
FileUpdate ==
    /\ pc = "file"
    /\ ~IsNone(cur_session)
    /\ metric' = Metric_update(metric, Get(cur_session))
    /\ agg_metrics' = UpdateAggregate(agg_metrics, make_all_metrics[entry],
                                      updates = 0, Get(cur_session))
    /\ updates' = updates + 1
    /\ processed' = Append(processed, Get(cur_session))
    /\ cur_session' = None
    /\ UNCHANGED <<fed, printed, calc_vars, entry, files, file_sums, agg_prints>>

\* process_file, lines 491-493: the per-file set is printed, and
\* process_file returns
FilePrint ==
    /\ pc = "file"
    /\ IsNone(cur_session)
    /\ printed' = Some(Metric_print(metric))
    /\ file_sums' = CountersAdd(file_sums, Counters(metric))
    /\ files' = files + 1
    /\ pc' = IF IsNone(agg_metrics) THEN "exit" ELSE "dir"
    /\ UNCHANGED <<metric, cur_session, fed, updates, lookup, pairs, ind, begin_ms,
                   latency_ms, result, entry, agg_metrics, processed, agg_prints>>

\* process_dir, lines 502-505: after the last file the aggregate set is
\* printed
DirPrint ==
    /\ pc = "dir"
    /\ printed' = Some(Metric_print(Get(agg_metrics)))
    /\ agg_prints' = agg_prints + 1
    /\ pc' = "exit"
    /\ UNCHANGED <<metric, cur_session, fed, updates, lookup, pairs, ind, begin_ms,
                   latency_ms, result, entry, agg_metrics, files, processed, file_sums>>

DirNext ==
    \/ MainFile
    \/ MainDir
    \/ DirNextFile
    \/ FileReadSession
    \/ FileUpdate
    \/ FilePrint
    \/ DirPrint

SpecDir == DirInit /\ [][DirNext]_vars

----------------------------------------------------------------------------
(* Claims about calc_latencies, checked under SpecCalc *)

KeyAt(lkp, i) == make_key(lkp.suggestions[i])
LatAt(lkp, i) == lkp.suggestions[i].createdLatency
Idx(lkp) == 1..Len(lkp.suggestions)

\* Some identity A has two suggestions, and a different identity B has one
\* whose createdLatency is strictly between theirs.
Interleaved(lkp) ==
    \E a1, b, a2 \in Idx(lkp) :
        /\ KeyAt(lkp, a1) = KeyAt(lkp, a2)
        /\ KeyAt(lkp, b) # KeyAt(lkp, a1)
        /\ LatAt(lkp, a1) < LatAt(lkp, b)
        /\ LatAt(lkp, b) < LatAt(lkp, a2)

CalcDone == pc = "done" /\ ~IsNone(result)

\* C1: a lookup in which an identity B has a createdLatency strictly between
\* two createdLatency values of another identity A makes calc_latencies
\* return None, and it does not raise.
C1_InterleavedReturnsNone ==
    (CalcDone /\ Interleaved(lookup)) => Get(result) = Returned(None)

C1_Witness ==
    CalcDone /\ Interleaved(lookup) /\ Get(result) = Returned(None)

SameIdentity(lkp) ==
    /\ Len(lkp.suggestions) >= 1
    /\ \A i \in Idx(lkp) : KeyAt(lkp, i) = KeyAt(lkp, 1)

MaxLatency(lkp) ==
    CHOOSE m \in { LatAt(lkp, i) : i \in Idx(lkp) } :
        \A i \in Idx(lkp) : LatAt(lkp, i) <= m

\* C2: a lookup whose suggestions all carry one identity gets the mapping
\* with the single entry identity -> largest createdLatency.
C2_SingleIdentity ==
    (CalcDone /\ SameIdentity(lookup)) =>
        Get(result) = Returned(Some([ k \in {KeyAt(lookup, 1)} |-> MaxLatency(lookup) ]))

C2_Witness ==
    /\ CalcDone
    /\ SameIdentity(lookup)
    /\ Len(lookup.suggestions) >= 2
    /\ \E i \in Idx(lookup) : LatAt(lookup, i) # MaxLatency(lookup) /\ LatAt(lookup, i) > 0
    /\ Get(result) = Returned(Some([ k \in {KeyAt(lookup, 1)} |-> MaxLatency(lookup) ]))

\* The loop is at an entry whose identity differs from the previous entry's
\* and has no window yet: this iteration closes the previous window.
ClosesWindow ==
    /\ pc = "loop"
    /\ ind > 1
    /\ ind <= Len(pairs)
    /\ pairs[ind][2] # pairs[ind - 1][2]
    /\ pairs[ind][2] \notin DOMAIN begin_ms

\* C3 as stated: the previous identity's window is closed with
\* duration = createdLatency of the entry at which the change is detected
\* minus the previous identity's begin.
C3_ClosedAtCurrentTimestamp ==
    [][ ClosesWindow =>
          /\ pairs[ind - 1][2] \in DOMAIN latency_ms'
          /\ latency_ms'[pairs[ind - 1][2]]
               = pairs[ind][1] - begin_ms[pairs[ind - 1][2]] ]_vars

\* C3 as amended: the previous identity's window is closed with
\* duration = createdLatency of the previous entry (the last one of the
\* previous identity) minus the previous identity's begin, and the new
\* identity's window begins at that same timestamp.
C3_ClosedAtPreviousTimestamp ==
    [][ ClosesWindow =>
          /\ pairs[ind - 1][2] \in DOMAIN latency_ms'
          /\ latency_ms'[pairs[ind - 1][2]]
               = pairs[ind - 1][1] - begin_ms[pairs[ind - 1][2]]
          /\ begin_ms'[pairs[ind][2]] = pairs[ind - 1][1] ]_vars

\* A window was closed at a change between two entries of different
\* createdLatency.
C3_Witness ==
    /\ pc \in {"loop", "done"}
    /\ \E i \in 2..Len(pairs) :
        /\ i < ind
        /\ pairs[i][2] # pairs[i - 1][2]
        /\ pairs[i][1] # pairs[i - 1][1]
        /\ pairs[i - 1][2] \in DOMAIN latency_ms
        /\ latency_ms[pairs[i - 1][2]] = pairs[i - 1][1] - begin_ms[pairs[i - 1][2]]
        /\ latency_ms[pairs[i - 1][2]] # pairs[i][1] - begin_ms[pairs[i - 1][2]]

IndexPermutations(n) ==
    { p \in [1..n -> 1..n] : \A i, j \in 1..n : i # j => p[i] # p[j] }

\* `out` lists the pairs of `inp` by createdLatency only, pairs of equal
\* createdLatency in the order `inp` lists them.
IsStableLatencySort(inp, out) ==
    /\ Len(out) = Len(inp)
    /\ \E p \in IndexPermutations(Len(inp)) :
        /\ \A i \in 1..Len(inp) : out[i] = inp[p[i]]
        /\ \A i, j \in 1..Len(inp) :
             i < j => \/ inp[p[i]][1] < inp[p[j]][1]
                      \/ (inp[p[i]][1] = inp[p[j]][1] /\ p[i] < p[j])

\* C4 as stated: the walk visits the suggestions by createdLatency only,
\* those of equal createdLatency in their logged order.
C4_TiesKeepLoggedOrder ==
    pc \in {"loop", "done"} => IsStableLatencySort(MakePairs(lookup), pairs)

Reorderings(lkp) ==
    { MkLookup([ i \in Idx(lkp) |-> lkp.suggestions[p[i]] ], lkp.popupLatency) :
        p \in IndexPermutations(Len(lkp.suggestions)) }

\* C4 as amended: the walk visits the suggestions by createdLatency, those
\* of equal createdLatency by (contributor, contributorKind) whatever their
\* logged order; so every logged order of the same suggestions gets the
\* same verdict and the same durations.
C4_TiesOrderedByIdentity ==
    /\ pc \in {"loop", "done"} =>
        /\ Len(pairs) = Len(lookup.suggestions)
        /\ \E p \in IndexPermutations(Len(pairs)) :
             \A i \in 1..Len(pairs) : pairs[i] = MakePairs(lookup)[p[i]]
        /\ \A i, j \in 1..Len(pairs) :
             i < j => \/ pairs[i][1] < pairs[j][1]
                      \/ /\ pairs[i][1] = pairs[j][1]
                         /\ ~KeyLess(pairs[j][2], pairs[i][2])
    /\ CalcDone =>
        \A other \in Reorderings(lookup) : calc_latencies(other) = Get(result)

\* Two suggestions of equal createdLatency are logged against the order of
\* their identities, and the walk has visited them in identity order.
C4_Witness ==
    /\ CalcDone
    /\ \E i, j \in Idx(lookup) :
        /\ i < j
        /\ LatAt(lookup, i) = LatAt(lookup, j)
        /\ KeyLess(KeyAt(lookup, j), KeyAt(lookup, i))
    /\ ~IsStableLatencySort(MakePairs(lookup), pairs)
    /\ Get(result) # Returned(None)

\* the sum of the values of a dict
RECURSIVE ValueSum(_)
ValueSum(d) ==
    IF DOMAIN d = {} THEN 0
    ELSE LET k == CHOOSE k \in DOMAIN d : TRUE
         IN  d[k] + ValueSum([ j \in (DOMAIN d) \ {k} |-> d[j] ])

\* calc_latencies has returned a mapping for a lookup that is not empty
ReturnedMapping ==
    /\ CalcDone
    /\ Len(lookup.suggestions) >= 1
    /\ ~Get(result).raised
    /\ ~IsNone(Get(result).val)

\* C14: a mapping returned for a non-empty lookup has exactly one entry for
\* each identity of the lookup, every duration is >= 0, and the durations
\* sum to the largest createdLatency of the lookup.
C14_WindowsPartitionTheInterval ==
    ReturnedMapping =>
        LET d == Get(Get(result).val)
        IN  /\ DOMAIN d = { KeyAt(lookup, i) : i \in Idx(lookup) }
            /\ \A k \in DOMAIN d : d[k] >= 0
            /\ ValueSum(d) = MaxLatency(lookup)

\* Three identities with windows of different positive lengths.
C14_Witness ==
    /\ ReturnedMapping
    /\ Cardinality({ KeyAt(lookup, i) : i \in Idx(lookup) }) = 3
    /\ LET d == Get(Get(result).val)
       IN  /\ Cardinality(DOMAIN d) = 3
           /\ ValueSum(d) = MaxLatency(lookup)
           /\ MaxLatency(lookup) > 0
           /\ \E k \in DOMAIN d : d[k] > 0 /\ d[k] < MaxLatency(lookup)

----------------------------------------------------------------------------
(* Claims about the metrics, checked under Spec *)

\* update of a metric of class cls is about to be called with cur_session
Updating(cls) ==
    /\ IsNone(printed)
    /\ ~IsNone(cur_session)
    /\ ~fed
    /\ metric.cls = cls

\* update of a metric of class cls has just been called with cur_session
Updated(cls) ==
    /\ ~IsNone(cur_session)
    /\ fed
    /\ metric.cls = cls

SuggestionsOf(ses) == ses.lookups[1].suggestions

CreatedOf(ses) ==
    { SuggestionsOf(ses)[i].createdLatency : i \in 1..Len(SuggestionsOf(ses)) }

MinCreated(ses) == CHOOSE m \in CreatedOf(ses) : \A l \in CreatedOf(ses) : m <= l

\* expectedText is the text of a suggestion whose createdLatency is at most
\* the least createdLatency of the lookup + delay
FoundWithin(ses, delay) ==
    \E i \in 1..Len(SuggestionsOf(ses)) :
        /\ SuggestionsOf(ses)[i].text = ses.expectedText
        /\ SuggestionsOf(ses)[i].createdLatency <= MinCreated(ses) + delay

\* C5: for every delay >= 0, ApproxRecall(delay).update adds 1 to count, and
\* 1 to found exactly when expectedText is the text of a suggestion within
\* delay ms of the least createdLatency of the lookup.
C5_ApproxRecallWindow ==
    [][ Updating("ApproxRecall") =>
          /\ metric'.count = metric.count + 1
          /\ metric'.found = metric.found
                               + Bool(FoundWithin(Get(cur_session), metric.delay_ms)) ]_vars

\* the createdLatency values of the suggestions whose text is expectedText
MatchingCreated(ses) ==
    LET Matches(x) == x.text = ses.expectedText
        Created(x) == x.createdLatency
    IN  Comprehension(
            [ i \in DOMAIN SuggestionsOf(ses) |->
                << Matches(SuggestionsOf(ses)[i]),
                   Created(SuggestionsOf(ses)[i]) >> ])

\* C6: MeanOptimisticOracleLatency.update adds 1 to skipped, and nothing
\* else, exactly when expectedText matches no suggestion; otherwise it adds 1
\* to count and the aggregate of the matching createdLatency values to the
\* total, also when that aggregate is 0.
C6_OptimisticOracleCountsEveryMatch ==
    [][ Updating("MeanOptimisticOracleLatency") =>
          LET matching == MatchingCreated(Get(cur_session))
          IN  IF Len(matching) = 0
              THEN metric' = [ metric EXCEPT !.skipped = @ + 1 ]
              ELSE metric' = [ metric EXCEPT
                                 !.count = @ + 1,
                                 !.total_latency = NumAdd(@, Agg(metric.label, matching)) ] ]_vars

\* C7: MeanApproxLatency.update adds 1 to skipped exactly when the lookup has
\* no suggestion; otherwise it adds 1 to count and
\* min(createdLatency) + delay to the total, for the delays 0 and 100.
C7_ApproxLatencySkipsOnlyEmpty ==
    [][ Updating("MeanApproxLatency") =>
          LET ses == Get(cur_session)
          IN  IF Len(SuggestionsOf(ses)) = 0
              THEN metric' = [ metric EXCEPT !.skipped = @ + 1 ]
              ELSE metric' = [ metric EXCEPT
                                 !.count = @ + 1,
                                 !.total_latency =
                                     NumAdd(@, Num(MinCreated(ses) + metric.delay_ms)) ] ]_vars

\* C8: print() of every metric never divides by zero, before any update and
\* after any sequence of updates, and it reports 0 for every ratio whose
\* denominator is 0.
C8_PrintNeverDividesByZero ==
    ~IsNone(printed) =>
        /\ ~Get(printed).raised
        /\ \A k \in DOMAIN Get(printed).lines :
             Get(printed).lines[k].den = 0 => Get(printed).lines[k].ratio = 0

\* Every session was skipped, and print reported the ratio 0 of 0 / 0.
C8_Witness ==
    /\ ~IsNone(printed)
    /\ updates >= 2
    /\ metric.cls \in {"ContiguousRecall", "MeanOptimisticOracleLatency"}
    /\ metric.skipped = updates
    /\ ~Get(printed).raised
    /\ Get(printed).lines[1].den = 0
    /\ Get(printed).lines[1].ratio = 0

\* C9: for a session whose latencies is None, ContiguousRecall.update and
\* ContiguousApproxRecall.update add 1 to skipped and leave the rest, while
\* Recall.update counts every session; so count + skipped (count for Recall)
\* is the number of updates.
C9_ContiguousVariantsSkip ==
    /\ [][ ( /\ Updating("ContiguousRecall") \/ Updating("ContiguousApproxRecall")
             /\ IsNone(Get(cur_session).latencies) )
           => metric' = [ metric EXCEPT !.skipped = @ + 1 ] ]_vars
    /\ [][ Updating("Recall") => metric'.count = metric.count + 1 ]_vars
    /\ [](metric.cls \in {"ContiguousRecall", "ContiguousApproxRecall"}
            => metric.count + metric.skipped = updates)
    /\ [](metric.cls = "Recall" => metric.count = updates)

\* A contiguous recall has counted one session and has just skipped one
\* whose latencies is None.
C9_Witness ==
    /\ Updated("ContiguousRecall") \/ Updated("ContiguousApproxRecall")
    /\ IsNone(Get(cur_session).latencies)
    /\ ~Get(cur_session).is_contiguous
    /\ updates = 2
    /\ metric.count = 1
    /\ metric.skipped = 1

\* an identity of TrickyBaselineMetric's list is a key of the session's
\* attributed latencies
HasListedKind(ses) ==
    /\ ~IsNone(ses.latencies)
    /\ \E i \in 1..Len(TrickyKinds) : TrickyKinds[i] \in DOMAIN Get(ses.latencies)

\* C10 as stated: count is the number of sessions with attributed latencies
\* in which a listed identity is present; a session with no listed identity
\* changes neither the numerators nor the denominator.
C10_CountsMatchedSessions ==
    [][ Updating("TrickyBaselineMetric") =>
          IF HasListedKind(Get(cur_session))
          THEN metric'.count = metric.count + 1
          ELSE /\ metric'.count = metric.count
               /\ metric'.total_latency = metric.total_latency
               /\ metric'.found = metric.found ]_vars

\* C10 as amended: count is the number of sessions with attributed
\* latencies, with or without a listed identity; a session with no listed
\* identity changes neither numerator, and it adds 1 to count when its
\* latencies are attributed and 1 to skipped otherwise.
C10_CountsAttributedSessions ==
    /\ [][ Updating("TrickyBaselineMetric") =>
             /\ metric'.count = metric.count + Bool(~IsNone(Get(cur_session).latencies))
             /\ metric'.skipped = metric.skipped + Bool(IsNone(Get(cur_session).latencies))
             /\ ~HasListedKind(Get(cur_session)) =>
                  /\ metric'.total_latency = metric.total_latency
                  /\ metric'.found = metric.found ]_vars
    /\ [](metric.cls = "TrickyBaselineMetric" => metric.count + metric.skipped = updates)

\* A session with suggestions and attributed latencies but no listed
\* identity has been counted.
C10_Witness ==
    /\ Updated("TrickyBaselineMetric")
    /\ ~IsNone(Get(cur_session).latencies)
    /\ Len(SuggestionsOf(Get(cur_session))) > 0
    /\ ~HasListedKind(Get(cur_session))
    /\ updates = 1
    /\ metric.count = 1
    /\ metric.total_latency = 0
    /\ metric.found = 0


\* the durations that the session's latencies attribute to the identities
\* of the suggestions whose text is expectedText
MatchingAttributed(ses) ==
    LET xs == SuggestionsOf(ses)
        matching == SelectSeq(xs, LAMBDA x : x.text = ses.expectedText)
    IN  [ i \in 1..Len(matching) |-> Get(ses.latencies)[make_key(matching[i])] ]

\* C13: MeanReorderOracleLatency.update adds 1 to skipped and nothing else
\* for a session whose latencies is None; and when it does not skip, the
\* session's latencies is a mapping, count grows by 1 and the total grows by
\* the aggregate of latencies[(contributor, contributorKind)] over the
\* suggestions whose text is expectedText.
C13_ReorderOracleUsesAttributedDurations ==
    [][ Updating("MeanReorderOracleLatency") =>
          LET ses == Get(cur_session)
          IN  /\ IsNone(ses.latencies) => metric' = [ metric EXCEPT !.skipped = @ + 1 ]
              /\ metric'.skipped = metric.skipped =>
                    /\ ~IsNone(ses.latencies)
                    /\ Len(MatchingAttributed(ses)) > 0
                    /\ metric' = [ metric EXCEPT
                                     !.count = @ + 1,
                                     !.total_latency =
                                         NumAdd(@, Agg(metric.label, MatchingAttributed(ses))) ] ]_vars

\* A session has been counted whose accepted suggestion was attributed a
\* duration other than its createdLatency.
C13_Witness ==
    /\ Updated("MeanReorderOracleLatency")
    /\ updates = 1
    /\ metric.count = 1
    /\ ~IsNone(Get(cur_session).latencies)
    /\ Cardinality(DOMAIN Get(Get(cur_session).latencies)) = 2
    /\ Len(MatchingAttributed(Get(cur_session))) = 1
    /\ metric.total_latency = Num(MatchingAttributed(Get(cur_session))[1])
    /\ \A i \in 1..Len(SuggestionsOf(Get(cur_session))) :
          SuggestionsOf(Get(cur_session))[i].text = Get(cur_session).expectedText
            => SuggestionsOf(Get(cur_session))[i].createdLatency
                 # MatchingAttributed(Get(cur_session))[1]


\* the pairs (value of the field, identity) of a session's suggestions, in
\* the order of pairs.sort()
OrderedBy(ses, field) ==
    SortPairs([ i \in 1..Len(SuggestionsOf(ses)) |->
                  << SuggestionsOf(ses)[i][field], make_key(SuggestionsOf(ses)[i]) >> ])

\* no identity has two maximal runs: nothing of another identity lies
\* between two suggestions of one identity
OneRunEach(ses, field) ==
    LET ps == OrderedBy(ses, field)
    IN  ~ \E i, j, k \in 1..Len(ps) :
            /\ i < j /\ j < k
            /\ ps[i][2] = ps[k][2]
            /\ ps[j][2] # ps[i][2]

\* C12: ContiguousKinds(field).update adds 1 to count, and 1 to good exactly
\* when no identity has more than one maximal run in the suggestions ordered
\* by the field; for createdLatency, good grows exactly when the session's
\* is_contiguous flag is set (calc_latencies returned a mapping), the empty
\* lookup included.
C12_ContiguousKindsOneWindowEach ==
    [][ Updating("ContiguousKinds") =>
          LET ses == Get(cur_session)
          IN  /\ metric'.count = metric.count + 1
              /\ metric'.good = metric.good + Bool(OneRunEach(ses, metric.latency_name))
              /\ metric.latency_name = "createdLatency" =>
                    /\ metric'.good = metric.good + Bool(ses.is_contiguous)
                    /\ ses.is_contiguous = ~IsNone(ses.latencies) ]_vars

\* A(0), B(50), A(120) by createdLatency: counted, and not good.
C12_Witness ==
    /\ Updated("ContiguousKinds")
    /\ metric.latency_name = "createdLatency"
    /\ updates = 1
    /\ metric.count = 1
    /\ metric.good = 0
    /\ ~Get(cur_session).is_contiguous
    /\ LET ps == OrderedBy(Get(cur_session), "createdLatency")
       IN  /\ Len(ps) = 3
           /\ ps[1][1] < ps[2][1] /\ ps[2][1] < ps[3][1]
           /\ ps[1][2] = ps[3][2]
           /\ ps[2][2] # ps[1][2]


----------------------------------------------------------------------------
(* Claims about process_dir, checked under SpecDir *)

\* a new object of the followed entry, updated with each session of ss
RECURSIVE UpdatedWithAll(_, _)
UpdatedWithAll(m, ss) ==
    IF Len(ss) = 0 THEN m
    ELSE UpdatedWithAll(Metric_update(m, Head(ss)), Tail(ss))

\* C11: in process_dir the aggregate object is a new object updated with
\* every session of every file in processing order; its additive counters
\* are the sums of those of the per-file objects; process_file neither
\* prints nor resets it, and process_dir prints it once, after the last
\* file.
C11_AggregateAccumulatesAcrossFiles ==
    /\ [](~IsNone(agg_metrics) =>
            /\ Get(agg_metrics) = UpdatedWithAll(make_all_metrics[entry], processed)
            /\ Counters(Get(agg_metrics)) =
                 IF pc = "file" THEN CountersAdd(file_sums, Counters(metric))
                 ELSE file_sums)
    /\ [][ pc = "file" => agg_prints' = agg_prints ]_vars
    /\ [][ pc = "dir" \/ (pc = "file" /\ IsNone(cur_session))
             => agg_metrics' = agg_metrics ]_vars
    /\ [](pc # "exit" => agg_prints = 0)
    /\ [](pc = "exit" /\ ~IsNone(agg_metrics) => agg_prints = 1 /\ IsNone(cur_session))

\* Two files have been processed, with sessions in both, some counted and
\* some skipped, and the aggregate has been printed.
C11_Witness ==
    /\ pc = "exit"
    /\ ~IsNone(agg_metrics)
    /\ agg_prints = 1
    /\ files = 2
    /\ Len(processed) = 3
    /\ updates \in 1..2
    /\ metric.cls = "ContiguousRecall"
    /\ Get(agg_metrics).found = 1
    /\ Get(agg_metrics).count = 2
    /\ Get(agg_metrics).skipped = 1
    /\ Counters(Get(agg_metrics)) = file_sums
    /\ Counters(Get(agg_metrics)) # Counters(metric)

====
